---------------------------- MODULE Spec2Model ----------------------------
(***************************************************************************)
(* A model of utilities/ddl_splitter.py: the DDL splitter.                 *)
(*                                                                         *)
(* Text is modelled at character level: a string is a sequence of          *)
(* one-character strings.  The regular expressions of the source are       *)
(* values of a small expression language, matched by MatchEnds the way     *)
(* Python's backtracking matcher explores them.  The file system is a map  *)
(* from paths (sequences of names) to file contents plus a set of          *)
(* directories.  A process run is a state machine over the positions of    *)
(* main, split_ddl and split_single_file.                                  *)
(***************************************************************************)
EXTENDS Naturals, Sequences, FiniteSets, TLC

(***************************************************************************)
(* Characters and strings                                                  *)
(***************************************************************************)
LowerSeq ==
    <<"a","b","c","d","e","f","g","h","i","j","k","l","m",
      "n","o","p","q","r","s","t","u","v","w","x","y","z">>

UpperSeq ==
    <<"A","B","C","D","E","F","G","H","I","J","K","L","M",
      "N","O","P","Q","R","S","T","U","V","W","X","Y","Z">>

DigitSeq == <<"0","1","2","3","4","5","6","7","8","9">>

Range(f) == {f[i] : i \in DOMAIN f}

LowerSet == Range(LowerSeq)

UpperSet == Range(UpperSeq)

DigitSet == Range(DigitSeq)

\* \s of the re module, over the characters the model's texts use
WhiteSet == {" ", "\t", "\n"}

\* \w of the re module: letters, digits and the underscore
WordSet == LowerSet \cup UpperSet \cup DigitSet \cup {"_"}

IndexIn(seq, c) == CHOOSE i \in DOMAIN seq : seq[i] = c

\* str.upper() on one character
UpperChar(c) == IF c \in LowerSet THEN UpperSeq[IndexIn(LowerSeq, c)] ELSE c

\* str.lower() on one character
LowerChar(c) == IF c \in UpperSet THEN LowerSeq[IndexIn(UpperSeq, c)] ELSE c

\* str.upper()
StrUpper(s) == [i \in 1..Len(s) |-> UpperChar(s[i])]

\* str.lower()
StrLower(s) == [i \in 1..Len(s) |-> LowerChar(s[i])]

\* s[a-1:b-1] of Python with 1-based positions: the characters a..b-1
Slice(s, a, b) == IF b <= a THEN <<>> ELSE SubSeq(s, a, b - 1)

\* str.startswith
StartsWith(s, pre) == Len(pre) <= Len(s) /\ SubSeq(s, 1, Len(pre)) = pre

\* str.endswith
EndsWith(s, suf) ==
    Len(suf) <= Len(s) /\ SubSeq(s, Len(s) - Len(suf) + 1, Len(s)) = suf

RECURSIVE LStrip(_)
LStrip(s) == IF s # <<>> /\ Head(s) \in WhiteSet THEN LStrip(Tail(s)) ELSE s

RECURSIVE RStrip(_)
RStrip(s) ==
    IF s # <<>> /\ s[Len(s)] \in WhiteSet
      THEN RStrip(SubSeq(s, 1, Len(s) - 1))
      ELSE s

\* str.strip()
Strip(s) == RStrip(LStrip(s))

\* the least element of a non-empty set of numbers
Least(S) == CHOOSE x \in S : \A y \in S : x <= y

RECURSIVE SplitFrom(_, _, _)
SplitFrom(s, c, start) ==
    LET at == {i \in start..Len(s) : s[i] = c}
    IN  IF at = {} THEN <<Slice(s, start, Len(s) + 1)>>
        ELSE <<Slice(s, start, Least(at))>> \o SplitFrom(s, c, Least(at) + 1)

\* str.split(c) for a one-character separator: every piece, empty ones included
Split(s, c) == SplitFrom(s, c, 1)

RECURSIVE Decimal(_)
\* str(n) for a natural number
Decimal(n) ==
    IF n < 10 THEN <<DigitSeq[n + 1]>>
    ELSE Decimal(n \div 10) \o <<DigitSeq[(n % 10) + 1]>>

RECURSIVE ZeroPad(_, _)
ZeroPad(s, w) == IF Len(s) >= w THEN s ELSE ZeroPad(<<"0">> \o s, w)

\* f"{i:04d}"
Format04d(i) == ZeroPad(Decimal(i), 4)

(***************************************************************************)
(* Regular expressions                                                     *)
(***************************************************************************)
RIn(S) == [t |-> "in", cs |-> S]

RNotIn(S) == [t |-> "notin", cs |-> S]

RCat(xs) == [t |-> "cat", xs |-> xs]

RAlt(xs) == [t |-> "alt", xs |-> xs]

ROpt(x) == [t |-> "opt", x |-> x]

RPlus(x) == [t |-> "plus", x |-> x]

RStar(x) == [t |-> "star", x |-> x]

RLazyStar(x) == [t |-> "lazystar", x |-> x]

\* $ under re.MULTILINE
REol == [t |-> "eol"]

\* one literal character; both cases under re.IGNORECASE
RLit(c, ic) == RIn(IF ic THEN {LowerChar(c), UpperChar(c)} ELSE {c})

\* a literal word
RWord(w, ic) == RCat([i \in 1..Len(w) |-> RLit(w[i], ic)])

\* \s+
RSpaces == RPlus(RIn(WhiteSet))

\* whether character c is in the class x (an "in" or "notin" expression)
InClass(x, c) == IF x.t = "in" THEN c \in x.cs ELSE c \notin x.cs

\* the number of consecutive characters of s from position p that are in the
\* class x
RunLength(x, s, p) ==
    LET stop == CHOOSE i \in p..(Len(s) + 1) :
                  /\ i = Len(s) + 1 \/ ~InClass(x, s[i])
                  /\ \A j \in p..(i - 1) : InClass(x, s[j])
    IN  stop - p

RECURSIVE MatchEnds(_, _, _)
RECURSIVE MatchEndsFrom(_, _, _)

\* The positions at which a match of r that starts at position p of s can
\* end, in the order in which the backtracking matcher tries them (a
\* position p means: before the p-th character).  The repetitions of the
\* source all repeat a character class: a greedy one tries the longest run
\* first, a lazy one the shortest.
MatchEnds(r, s, p) ==
    CASE r.t \in {"in", "notin"} ->
           IF p <= Len(s) /\ InClass(r, s[p]) THEN <<p + 1>> ELSE <<>>
      [] r.t = "eol" ->
           IF p = Len(s) + 1 \/ (p <= Len(s) /\ s[p] = "\n")
             THEN <<p>> ELSE <<>>
      [] r.t = "cat" ->
           IF r.xs = <<>> THEN <<p>>
           ELSE MatchEndsFrom(RCat(Tail(r.xs)), s, MatchEnds(Head(r.xs), s, p))
      [] r.t = "alt" ->
           IF r.xs = <<>> THEN <<>>
           ELSE MatchEnds(Head(r.xs), s, p) \o MatchEnds(RAlt(Tail(r.xs)), s, p)
      [] r.t = "opt" -> MatchEnds(r.x, s, p) \o <<p>>
      [] r.t = "plus" ->
           LET k == RunLength(r.x, s, p) IN [i \in 1..k |-> p + k + 1 - i]
      [] r.t = "star" ->
           LET k == RunLength(r.x, s, p) IN [i \in 1..(k + 1) |-> p + k + 1 - i]
      [] r.t = "lazystar" ->
           LET k == RunLength(r.x, s, p) IN [i \in 1..(k + 1) |-> p + i - 1]

\* continue with r from each of the positions es, in order
MatchEndsFrom(r, s, es) ==
    IF es = <<>> THEN <<>>
    ELSE MatchEnds(r, s, Head(es)) \o MatchEndsFrom(r, s, Tail(es))

\* the positions from p on at which a match of r starts
MatchStarts(r, s, p) == {q \in p..(Len(s) + 1) : MatchEnds(r, s, q) # <<>>}

RECURSIVE FindAllFrom(_, _, _)
FindAllFrom(r, s, p) ==
    LET starts == MatchStarts(r, s, p)
    IN  IF starts = {} THEN <<>>
        ELSE LET q == Least(starts)
                 e == Head(MatchEnds(r, s, q))
             IN  <<Slice(s, q, e)>>
                   \o FindAllFrom(r, s, IF e = q THEN q + 1 ELSE e)

\* re.findall(r, s) for a pattern without groups: the non-overlapping
\* matches, left to right
FindAll(r, s) == FindAllFrom(r, s, 1)

RECURSIVE SubFrom(_, _, _, _)
SubFrom(r, repl, s, p) ==
    LET starts == MatchStarts(r, s, p)
    IN  IF starts = {} THEN Slice(s, p, Len(s) + 1)
        ELSE LET q == Least(starts)
                 e == Head(MatchEnds(r, s, q))
             IN  Slice(s, p, q) \o repl
                   \o (IF e = q
                         THEN Slice(s, q, q + 1) \o SubFrom(r, repl, s, q + 1)
                         ELSE SubFrom(r, repl, s, e))

\* re.sub(r, repl, s)
Sub(r, repl, s) == SubFrom(r, repl, s, 1)

(***************************************************************************)
(* Character codes and the string hash                                     *)
(***************************************************************************)
\* the printable ASCII characters in code order, from the space (32) to the
\* underscore (95)
AsciiLowSeq ==
    <<
      " ","!","\"","#","$","%","&","'","(",")","*","+",",","-",".","/",
      "0","1","2","3","4","5","6","7","8","9",":",";","<","=",">","?",
      "@","A","B","C","D","E","F","G","H","I","J","K","L","M","N","O",
      "P","Q","R","S","T","U","V","W","X","Y","Z","[","\\","]","^","_"
    >>

\* and from a (97) to the tilde (126)
AsciiHighSeq ==
    <<
      "a","b","c","d","e","f","g","h","i","j","k","l","m","n","o",
      "p","q","r","s","t","u","v","w","x","y","z","{","|","}","~"
    >>

\* ord(c)
CharCode(c) ==
    IF c = "\t" THEN 9
    ELSE IF c = "\n" THEN 10
    ELSE IF c \in Range(AsciiLowSeq) THEN 31 + IndexIn(AsciiLowSeq, c)
    ELSE 96 + IndexIn(AsciiHighSeq, c)

RECURSIVE StrCode(_)
StrCode(s) ==
    IF s = <<>> THEN 0
    ELSE (StrCode(SubSeq(s, 1, Len(s) - 1)) * 31 + CharCode(s[Len(s)])) % 65536

\* hash(s) of a str: a function of the text and of the seed that the
\* interpreter draws when the process starts (hash randomization), so equal
\* texts hash alike within one process and need not between two
PyHash(salt, s) == StrCode(s) + salt * 4099

(***************************************************************************)
(* DDLSplitter: patterns                                                   *)
(***************************************************************************)
\* a keyword, matched under re.IGNORECASE
K(w) == RWord(w, TRUE)

\* CREATE\s+(?:OR\s+REPLACE\s+)?
CreatePrefix ==
    RCat(<<K(<<"C","R","E","A","T","E">>), RSpaces,
           ROpt(RCat(<<K(<<"O","R">>), RSpaces,
                       K(<<"R","E","P","L","A","C","E">>), RSpaces>>))>>)

\* CREATE\s+(?:OR\s+REPLACE\s+)? <kind> \s+[^;]+;
DdlPattern(kind) ==
    RCat(<<CreatePrefix, kind, RSpaces, RPlus(RNotIn({";"})), RLit(";", TRUE)>>)

DDL_PATTERNS ==
    <<
      \* 1: TEMP(?:ORARY)?\s+)?TABLE
      DdlPattern(RCat(<<ROpt(RCat(<<RCat(<<K(<<"T","E","M","P">>), ROpt(K(<<"O","R","A","R","Y">>))>>), RSpaces>>)),
                   K(<<"T","A","B","L","E">>)>>)),
      \* 2: VIEW
      DdlPattern(K(<<"V","I","E","W">>)),
      \* 3: (?:MATERIALIZED\s+)?VIEW
      DdlPattern(RCat(<<ROpt(RCat(<<K(<<"M","A","T","E","R","I","A","L","I","Z","E","D">>), RSpaces>>)),
                   K(<<"V","I","E","W">>)>>)),
      \* 4: FUNCTION
      DdlPattern(K(<<"F","U","N","C","T","I","O","N">>)),
      \* 5: PROCEDURE
      DdlPattern(K(<<"P","R","O","C","E","D","U","R","E">>)),
      \* 6: SEQUENCE
      DdlPattern(K(<<"S","E","Q","U","E","N","C","E">>)),
      \* 7: STREAM
      DdlPattern(K(<<"S","T","R","E","A","M">>)),
      \* 8: TASK
      DdlPattern(K(<<"T","A","S","K">>)),
      \* 9: PIPE
      DdlPattern(K(<<"P","I","P","E">>)),
      \* 10: FILE\s+FORMAT
      DdlPattern(RCat(<<K(<<"F","I","L","E">>), RSpaces, K(<<"F","O","R","M","A","T">>)>>)),
      \* 11: WAREHOUSE
      DdlPattern(K(<<"W","A","R","E","H","O","U","S","E">>)),
      \* 12: DATABASE
      DdlPattern(K(<<"D","A","T","A","B","A","S","E">>)),
      \* 13: SCHEMA
      DdlPattern(K(<<"S","C","H","E","M","A">>)),
      \* 14: (?:MASKING|ROW\s+ACCESS|...|SESSION)\s+POLICY
      DdlPattern(RCat(<<RAlt(<<K(<<"M","A","S","K","I","N","G">>), RCat(<<K(<<"R","O","W">>), RSpaces, K(<<"A","C","C","E","S","S">>)>>), K(<<"A","G","G","R","E","G","A","T","I","O","N">>), K(<<"A","U","T","H","E","N","T","I","C","A","T","I","O","N">>), K(<<"J","O","I","N">>), K(<<"P","A","S","S","W","O","R","D">>), K(<<"P","R","I","V","A","C","Y">>), K(<<"P","R","O","J","E","C","T","I","O","N">>), K(<<"S","E","S","S","I","O","N">>)>>),
                   RSpaces,
                   K(<<"P","O","L","I","C","Y">>)>>)),
      \* 15: TAG
      DdlPattern(K(<<"T","A","G">>)),
      \* 16: STORAGE\s+INTEGRATION
      DdlPattern(RCat(<<K(<<"S","T","O","R","A","G","E">>), RSpaces, K(<<"I","N","T","E","G","R","A","T","I","O","N">>)>>)),
      \* 17: (?:EXTERNAL|HYBRID|ICEBERG)\s+TABLE
      DdlPattern(RCat(<<RAlt(<<K(<<"E","X","T","E","R","N","A","L">>), K(<<"H","Y","B","R","I","D">>), K(<<"I","C","E","B","E","R","G">>)>>),
                   RSpaces,
                   K(<<"T","A","B","L","E">>)>>)),
      \* 18: DYNAMIC\s+TABLE
      DdlPattern(RCat(<<K(<<"D","Y","N","A","M","I","C">>), RSpaces, K(<<"T","A","B","L","E">>)>>)),
      \* 19: EVENT\s+TABLE
      DdlPattern(RCat(<<K(<<"E","V","E","N","T">>), RSpaces, K(<<"T","A","B","L","E">>)>>)),
      \* 20: SEMANTIC\s+VIEW
      DdlPattern(RCat(<<K(<<"S","E","M","A","N","T","I","C">>), RSpaces, K(<<"V","I","E","W">>)>>)),
      \* 21: ALERT
      DdlPattern(K(<<"A","L","E","R","T">>)),
      \* 22: DBT\s+PROJECT
      DdlPattern(RCat(<<K(<<"D","B","T">>), RSpaces, K(<<"P","R","O","J","E","C","T">>)>>)),
      \* 23: DATA\s+METRIC\s+FUNCTION
      DdlPattern(RCat(<<K(<<"D","A","T","A">>), RSpaces, K(<<"M","E","T","R","I","C">>), RSpaces, K(<<"F","U","N","C","T","I","O","N">>)>>))
    >>

(***************************************************************************)
(* DDLSplitter: name derivation                                            *)
(***************************************************************************)
RECURSIVE MatchChain(_, _, _)
\* The end positions of consecutive matches of the expressions rs from
\* position p, one tuple per way to match, in backtracking order
MatchChain(rs, s, p) ==
    IF rs = <<>> THEN << <<>> >>
    ELSE LET RECURSIVE Each(_)
             Each(es) ==
               IF es = <<>> THEN <<>>
               ELSE LET rest == MatchChain(Tail(rs), s, Head(es))
                    IN  [i \in 1..Len(rest) |-> <<Head(es)>> \o rest[i]]
                          \o Each(Tail(es))
         IN  Each(MatchEnds(Head(rs), s, p))

\* re.match(r'(\w+)\s+([^\s(]+)', s): <<>> when there is no match, else the
\* two groups
MatchTypeAndName(s) ==
    LET ms == MatchChain(<<RPlus(RIn(WordSet)), RSpaces,
                           RPlus(RNotIn(WhiteSet \cup {"("}))>>, s, 1)
    IN  IF ms = <<>> THEN <<>>
        ELSE <<Slice(s, 1, ms[1][1]), Slice(s, ms[1][2], ms[1][3])>>

HashModulus == 10000

\* a variant of _extract_object_name that keeps the qualifier of the name: the
\* split on the dot is left out
_extract_object_name_qualified(ddl_statement, salt) ==
    LET clean_ddl == Sub(CreatePrefix, <<>>, ddl_statement)
        match == MatchTypeAndName(Strip(clean_ddl))
    IN  IF match # <<>> THEN
          StrLower(match[1]) \o <<"_">>
            \o Sub(RIn({"\"", "'"}), <<>>, match[2])
        ELSE <<"o","b","j","e","c","t","_">>
               \o Decimal(PyHash(salt, ddl_statement) % HashModulus)

\* DDLSplitter._extract_object_name; salt is the hash seed of the process
_extract_object_name(ddl_statement, salt) ==
    LET clean_ddl == Sub(CreatePrefix, <<>>, ddl_statement)
        match == MatchTypeAndName(Strip(clean_ddl))
    IN  IF match # <<>> THEN
          LET object_type == match[1]
              raw_name == match[2]
              unquoted == Sub(RIn({"\"", "'"}), <<>>, raw_name)
              parts == Split(unquoted, ".")
              clean_name == parts[Len(parts)]
          IN  StrLower(object_type) \o <<"_">> \o clean_name
        ELSE <<"o","b","j","e","c","t","_">>
               \o Decimal(PyHash(salt, ddl_statement) % HashModulus)

MaxNameLength == 200

\* a variant of _sanitize_filename that replaces no character
_sanitize_filename_kept(filename) ==
    IF Len(filename) > MaxNameLength
      THEN SubSeq(filename, 1, MaxNameLength)
      ELSE filename

\* a variant of _sanitize_filename that does not limit the length
_sanitize_filename_unlimited(filename) ==
    Sub(RIn({"<", ">", ":", "\"", "/", "\\", "|", "?", "*"}), <<"_">>, filename)

\* DDLSplitter._sanitize_filename
_sanitize_filename(filename) ==
    LET sanitized ==
          Sub(RIn({"<", ">", ":", "\"", "/", "\\", "|", "?", "*"}), <<"_">>,
              filename)
    IN  IF Len(sanitized) > MaxNameLength
          THEN SubSeq(sanitized, 1, MaxNameLength)
          ELSE sanitized

(***************************************************************************)
(* DDLSplitter.split_single_file: normalization and extraction             *)
(***************************************************************************)
\* the three re.sub calls that remove comments and collapse whitespace
Normalize(text) ==
    LET noLine ==
          Sub(RCat(<<RLit("-", FALSE), RLit("-", FALSE),
                     RStar(RNotIn({"\n"})), REol>>), <<>>, text)
        noBlock ==
          Sub(RCat(<<RLit("/", FALSE), RLit("*", FALSE),
                     RLazyStar(RNotIn({})),
                     RLit("*", FALSE), RLit("/", FALSE)>>), <<>>, noLine)
    IN  Sub(RSpaces, <<" ">>, noBlock)

RECURSIVE FindAllPatternsReversed(_, _)
\* a variant that appends the matches of the patterns last pattern first
FindAllPatternsReversed(patterns, text) ==
    IF patterns = <<>> THEN <<>>
    ELSE FindAllPatternsReversed(Tail(patterns), text)
           \o FindAll(Head(patterns), text)

RECURSIVE FindAllPatterns(_, _)
\* the matches of each pattern in turn, appended in the order of the patterns
FindAllPatterns(patterns, text) ==
    IF patterns = <<>> THEN <<>>
    ELSE FindAll(Head(patterns), text)
           \o FindAllPatterns(Tail(patterns), text)

\* a variant of the fallback that leaves out the piece after the last semicolon
SemicolonFallbackTerminated(text) ==
    LET statements == Split(text, ";")
        keep == SelectSeq(SubSeq(statements, 1, Len(statements) - 1),
                  LAMBDA stmt :
                    StartsWith(StrUpper(Strip(stmt)),
                               <<"C","R","E","A","T","E">>))
    IN  [i \in 1..Len(keep) |-> Strip(keep[i]) \o <<";">>]

\* the fallback: the pieces between semicolons that start with CREATE
SemicolonFallback(text) ==
    LET statements == Split(text, ";")
        keep == SelectSeq(statements,
                  LAMBDA stmt :
                    StartsWith(StrUpper(Strip(stmt)),
                               <<"C","R","E","A","T","E">>))
    IN  [i \in 1..Len(keep) |-> Strip(keep[i]) \o <<";">>]

\* a variant of the extraction that adds the statements of the fallback to
\* the matches of the patterns
PatternStatementsAndFallback(text) ==
    FindAllPatterns(DDL_PATTERNS, text) \o SemicolonFallback(text)

\* the statements that the patterns find in the normalized content
PatternStatements(text) == FindAllPatterns(DDL_PATTERNS, text)

\* a variant of the file name that leaves the ordinal out
OutputFileNameUnnumbered(source_prefix, i, sanitized) ==
    source_prefix \o <<"_">> \o sanitized \o <<".","s","q","l">>

\* filename of split_single_file: source prefix, ordinal, sanitized name
OutputFileName(source_prefix, i, sanitized) ==
    source_prefix \o <<"_">> \o Format04d(i) \o <<"_">> \o sanitized
      \o <<".","s","q","l">>

\* a variant of the written text: the statement as it is, no newline added
OutputFileContentRaw(statement) == statement

\* what is written to the file
OutputFileContent(statement) == Strip(statement) \o <<"\n">>

(***************************************************************************)
(* Paths and the file system                                               *)
(***************************************************************************)
\* A path is the sequence of its names, relative to the working directory
\* (the empty sequence).  Path(text): the names between the separators.
ParsePath(text) ==
    SelectSeq(Split(text, "/"), LAMBDA name : name # <<>> /\ name # <<".">>)

PathName(path) == path[Len(path)]

PathParent(path) == SubSeq(path, 1, Len(path) - 1)

\* the position of the dot that starts the suffix of a name, 0 when the name
\* has no suffix (pathlib: the last dot, neither first nor last in the name)
SuffixDot(name) ==
    LET dots == {i \in 1..Len(name) : name[i] = "."}
        last == CHOOSE i \in dots : \A j \in dots : j <= i
    IN  IF dots = {} THEN 0
        ELSE IF 1 < last /\ last < Len(name) THEN last ELSE 0

\* Path.suffix
PathSuffix(path) ==
    LET name == PathName(path)
    IN  IF SuffixDot(name) = 0 THEN <<>>
        ELSE SubSeq(name, SuffixDot(name), Len(name))

\* Path.stem
PathStem(path) ==
    LET name == PathName(path)
    IN  IF SuffixDot(name) = 0 THEN name
        ELSE SubSeq(name, 1, SuffixDot(name) - 1)

IsPrefix(a, b) == Len(a) <= Len(b) /\ SubSeq(b, 1, Len(a)) = a

\* the proper ancestors of a path and the path itself
PathAndParents(path) == {SubSeq(path, 1, n) : n \in 0..Len(path)}

CharLess(c, d) == CharCode(c) < CharCode(d)

RECURSIVE StrLess(_, _)
\* s < t for two str: character by character, a proper prefix first
StrLess(s, t) ==
    IF t = <<>> THEN FALSE
    ELSE IF s = <<>> THEN TRUE
    ELSE IF Head(s) = Head(t) THEN StrLess(Tail(s), Tail(t))
    ELSE CharLess(Head(s), Head(t))

RECURSIVE PathLess(_, _)
\* the order of Path objects: name by name
PathLess(p, q) ==
    IF q = <<>> THEN FALSE
    ELSE IF p = <<>> THEN TRUE
    ELSE IF Head(p) = Head(q) THEN PathLess(Tail(p), Tail(q))
    ELSE StrLess(Head(p), Head(q))

RECURSIVE SortedDescending(_)
\* a variant of sorted(S): the largest path first
SortedDescending(S) ==
    IF S = {} THEN <<>>
    ELSE LET last == CHOOSE p \in S : \A q \in S \ {p} : PathLess(q, p)
         IN  <<last>> \o SortedDescending(S \ {last})

RECURSIVE Sorted(_)
\* sorted(S) for a set of paths
Sorted(S) ==
    IF S = {} THEN <<>>
    ELSE LET first == CHOOSE p \in S : \A q \in S \ {p} : PathLess(p, q)
         IN  <<first>> \o Sorted(S \ {first})

\* Path.is_file()
IsFile(fs, path) == path \in DOMAIN fs

\* os.path.exists of a path text
PathExists(fs, ds, text) ==
    text # <<>> /\ (ParsePath(text) \in DOMAIN fs \/ ParsePath(text) \in ds)

\* the file system after open(path, 'w') and write(content)
WriteFile(fs, path, text) ==
    [p \in DOMAIN fs \cup {path} |-> IF p = path THEN text ELSE fs[p]]

\* whether mkdir(parents=True, exist_ok=True) raises: a file is in the way
MkdirFails(fs, path) == \E p \in PathAndParents(path) : p \in DOMAIN fs

SqlExtensions == {<<".","s","q","l">>, <<".","d","d","l">>, <<".","S","Q","L">>, <<".","D","D","L">>}

\* DDLSplitter._find_ddl_files
_find_ddl_files(fs, directory) ==
    Sorted({p \in DOMAIN fs :
              /\ IsPrefix(directory, p)
              /\ p # directory
              /\ PathSuffix(p) \in SqlExtensions})

\* a variant of the default that takes the whole name for a file as well
_get_default_output_dir_by_name(fs, path) ==
    Append(PathParent(path), PathName(path) \o <<"_","s","p","l","i","t">>)

\* DDLSplitter._get_default_output_dir
_get_default_output_dir(fs, path) ==
    IF IsFile(fs, path)
      THEN Append(PathParent(path), PathStem(path) \o <<"_","s","p","l","i","t">>)
      ELSE Append(PathParent(path), PathName(path) \o <<"_","s","p","l","i","t">>)

(***************************************************************************)
(* The texts of the input files                                            *)
(***************************************************************************)
DemoSql == <<"d","e","m","o",".","s","q","l">>

DocDemo == <<"C","R","E","A","T","E"," ","T","A","B","L","E"," ","t","1"," ","(","x"," ","I","N","T",")",";"," ","C","R","E","A","T","E"," ","V","I","E","W"," ","v","1"," ","A","S"," ","S","E","L","E","C","T"," ","*"," ","F","R","O","M"," ","t","1",";">>

DocTable == <<"C","R","E","A","T","E"," ","T","A","B","L","E"," ","t","1"," ","(","x"," ","I","N","T",")",";">>

DocTwo == <<"C","R","E","A","T","E"," ","S","E","Q","U","E","N","C","E"," ","s",";"," ","C","R","E","A","T","E"," ","T","A","B","L","E"," ","t","1"," ","(","x"," ","I","N","T",")",";">>

DocRoles == <<"C","R","E","A","T","E"," ","R","O","L","E"," ","r",";"," ","C","R","E","A","T","E"," ","R","O","L","E"," ","q">>

DocHash == <<"C","R","E","A","T","E"," ","T","A","B","L","E"," ","(","x",")",";">>

DocNone == <<"S","E","L","E","C","T"," ","1",";">>

\* a statement whose name holds path separators
DocSlash == <<"C","R","E","A","T","E"," ","T","A","B","L","E"," ",".",".","/","x","\\","y"," ","(","x"," ","I","N","T",")",";">>

\* the texts of the single input file
SingleDocs == {DocDemo, DocRoles, DocHash, DocNone, DocSlash}

\* the texts of the files of the input folder
FolderDocs == {DocTable, DocTwo, DocHash}

Catalogue == SingleDocs \cup FolderDocs

(***************************************************************************)
(* The state of one command-line run, and of the file system under it      *)
(***************************************************************************)
VARIABLES
    argv,                       \* sys.argv[1:]
    files,                      \* the files: path |-> text
    dirs,                       \* the directories
    pc,                         \* where the process is
    input_arg,                  \* input_path of main (a text)
    output_arg,                 \* output_dir of main (a text, empty for None)
    input_path,                 \* DDLSplitter.input_path
    output_dir,                 \* DDLSplitter.output_dir
    folder_mode,                \* split_ddl took the folder branch
    ddl_files,                  \* split_ddl: the sorted files of the scan
    file_index,                 \* split_ddl: the position in ddl_files
    input_file,                 \* split_single_file: its input_file
    file_output_dir,            \* split_single_file: its output_dir
    content,                    \* split_single_file: the normalized text
    all_statements,             \* split_single_file: the extracted statements
    stmt_index,                 \* split_single_file: i of the loop
    used_fallback,              \* split_single_file: no pattern matched
    object_name,                \* split_single_file: the derived descriptor
    sanitized_name,             \* split_single_file: the descriptor, sanitized
    successful_splits,          \* split_single_file: its counter
    total_files_processed,      \* what split_ddl returns, first
    total_statements_processed, \* what split_ddl returns, second
    exit_code,                  \* the exit status, once pc = "exit"
    seed,                       \* the hash seed of this process
    run,                        \* how many times the command has been started
    faults,                     \* I/O errors the environment has raised
    interrupted,                \* this run was ended by the user
    writes,                     \* this run's completed statement writes
    stmt_errors,                \* this run's "Error processing statement" lines
    doc_failures,               \* this run's "Error processing <file>" lines
    prev_files,                 \* the files as the previous run left them
    given                       \* how the text under test was put together

vars ==
    <<argv, files, dirs, pc, input_arg, output_arg, input_path, output_dir,
      folder_mode, ddl_files, file_index, input_file, file_output_dir, content,
      all_statements, stmt_index, used_fallback, object_name, sanitized_name,
      successful_splits, total_files_processed,
      total_statements_processed, exit_code, seed, run, faults, interrupted,
      writes, stmt_errors, doc_failures, prev_files, given>>

fsVars == <<files, dirs>>

argVars == <<input_arg, output_arg>>

splitterVars == <<input_path, output_dir, folder_mode, ddl_files>>

docVars == <<input_file, file_output_dir, content, all_statements, stmt_index,
             used_fallback, object_name, sanitized_name, successful_splits>>

totalVars == <<total_files_processed, total_statements_processed>>

envVars == <<argv, seed, run, prev_files, given>>

logVars == <<writes, stmt_errors, doc_failures>>

\* how often the command is started in one behaviour
MaxRuns == 2

\* how many I/O errors the environment raises in one behaviour
MaxFaults == 1

\* the seeds the interpreter may draw for its string hash
Seeds == {0, 1}

HelpFlags == {<<"-","-","h","e","l","p">>, <<"-","h">>, <<"h","e","l","p">>}

(***************************************************************************)
(* main                                                                    *)
(***************************************************************************)
\* sys.exit(code), or the return of main for code 0
Exit(code) ==
    /\ pc' = "exit"
    /\ exit_code' = code

\* main: the help flag, the interactive mode, or the arguments
MainStart ==
    /\ pc = "main"
    /\ IF argv # <<>> /\ argv[1] \in HelpFlags THEN
         /\ Exit(0)
         /\ UNCHANGED argVars
       ELSE IF argv = <<>> THEN
         /\ pc' = "prompt_input"
         /\ UNCHANGED <<exit_code, argVars>>
       ELSE
         /\ pc' = "validate"
         /\ input_arg' = argv[1]
         /\ output_arg' = IF Len(argv) > 1 THEN argv[2] ELSE <<>>
         /\ UNCHANGED exit_code
    /\ UNCHANGED <<fsVars, splitterVars, file_index, docVars, totalVars,
                   envVars, faults, interrupted, logVars>>

\* get_user_input: one round of its loop, the user typing line
PromptInput(line) ==
    /\ pc = "prompt_input"
    /\ LET path == Strip(line)
       IN  IF path = <<>> \/ ~PathExists(files, dirs, path) THEN
             UNCHANGED <<pc, input_arg>>
           ELSE
             /\ input_arg' = path
             /\ pc' = IF /\ IsFile(files, ParsePath(path))
                         /\ ~EndsWith(StrLower(path), <<".","s","q","l">>)
                         /\ ~EndsWith(StrLower(path), <<".","d","d","l">>)
                        THEN "prompt_confirm"
                        ELSE "prompt_output"
    /\ UNCHANGED <<fsVars, output_arg, splitterVars, file_index, docVars,
                   totalVars, exit_code, envVars, faults, interrupted, logVars>>

\* get_user_input: the answer to "Continue anyway?"
PromptConfirm(response) ==
    /\ pc = "prompt_confirm"
    /\ pc' = IF StrLower(response) \in {<<"y">>, <<"y","e","s">>}
               THEN "prompt_output"
               ELSE "prompt_input"
    /\ UNCHANGED <<fsVars, argVars, splitterVars, file_index, docVars,
                   totalVars, exit_code, envVars, faults, interrupted, logVars>>

\* get_output_directory, the user typing line
PromptOutput(line) ==
    /\ pc = "prompt_output"
    /\ output_arg' = Strip(line)
    /\ pc' = "validate"
    /\ UNCHANGED <<fsVars, input_arg, splitterVars, file_index, docVars,
                   totalVars, exit_code, envVars, faults, interrupted, logVars>>

\* EOFError or KeyboardInterrupt while a prompt waits: "Goodbye!", sys.exit(0)
PromptInterrupt ==
    /\ pc \in {"prompt_input", "prompt_confirm", "prompt_output"}
    /\ Exit(0)
    /\ interrupted' = TRUE
    /\ UNCHANGED <<fsVars, argVars, splitterVars, file_index, docVars,
                   totalVars, envVars, faults, logVars>>

\* a variant of main without the validation: the DDLSplitter is constructed
\* whether the input path exists or not
ValidateNothing ==
    /\ pc = "validate"
    /\ pc' = "split_ddl"
    /\ input_path' = ParsePath(input_arg)
    /\ output_dir' =
         IF output_arg # <<>> THEN ParsePath(output_arg)
         ELSE _get_default_output_dir(files, ParsePath(input_arg))
    /\ UNCHANGED <<fsVars, argVars, folder_mode, ddl_files, file_index,
                   docVars, totalVars, exit_code, envVars, faults,
                   interrupted, logVars>>

\* main: the input path is validated and the DDLSplitter constructed
Validate ==
    /\ pc = "validate"
    /\ IF ~PathExists(files, dirs, input_arg) THEN
         /\ Exit(1)
         /\ UNCHANGED <<input_path, output_dir>>
       ELSE
         /\ pc' = "split_ddl"
         /\ input_path' = ParsePath(input_arg)
         /\ output_dir' =
              IF output_arg # <<>> THEN ParsePath(output_arg)
              ELSE _get_default_output_dir(files, ParsePath(input_arg))
         /\ UNCHANGED exit_code
    /\ UNCHANGED <<fsVars, argVars, folder_mode, ddl_files, file_index,
                   docVars, totalVars, envVars, faults, interrupted, logVars>>

(***************************************************************************)
(* DDLSplitter.split_ddl and split_single_file                             *)
(***************************************************************************)
\* a call split_single_file(file, out) begins
CallSplitSingleFile(file, out) ==
    /\ pc' = "open"
    /\ input_file' = file
    /\ file_output_dir' = out
    /\ content' = <<>>
    /\ all_statements' = <<>>
    /\ stmt_index' = 1
    /\ used_fallback' = FALSE
    /\ object_name' = <<>>
    /\ sanitized_name' = <<>>
    /\ successful_splits' = 0

\* split_ddl returns (n_files, n_statements) to main
ReturnToMain(n_files, n_statements) ==
    /\ pc' = "report"
    /\ total_files_processed' = n_files
    /\ total_statements_processed' = n_statements

\* split_ddl: the dispatch on the kind of input, and the scan of a folder
SplitDdl ==
    /\ pc = "split_ddl"
    /\ IF IsFile(files, input_path) THEN
         /\ folder_mode' = FALSE
         /\ ddl_files' = <<>>
         /\ file_index' = 0
         /\ CallSplitSingleFile(input_path, output_dir)
         /\ UNCHANGED totalVars
       ELSE LET found == _find_ddl_files(files, input_path)
            IN  /\ folder_mode' = TRUE
                /\ ddl_files' = found
                /\ IF found = <<>> THEN
                     /\ file_index' = 0
                     /\ ReturnToMain(0, 0)
                     /\ UNCHANGED docVars
                   ELSE
                     /\ file_index' = 1
                     /\ CallSplitSingleFile(found[1],
                                            Append(output_dir, PathStem(found[1])))
                     /\ total_files_processed' = 0
                     /\ total_statements_processed' = 0
    /\ UNCHANGED <<fsVars, argVars, input_path, output_dir, exit_code,
                   envVars, faults, interrupted, logVars>>

\* split_ddl: the loop goes on to the next file, or ends
NextFile(n_files, n_statements) ==
    IF file_index < Len(ddl_files) THEN
      /\ file_index' = file_index + 1
      /\ CallSplitSingleFile(ddl_files[file_index + 1],
                             Append(output_dir,
                                    PathStem(ddl_files[file_index + 1])))
      /\ total_files_processed' = n_files
      /\ total_statements_processed' = n_statements
    ELSE
      /\ file_index' = file_index + 1
      /\ ReturnToMain(n_files, n_statements)
      /\ UNCHANGED docVars

\* a variant in which an error of one document ends the run in folder mode too
DocumentRaisesAborts ==
    /\ doc_failures' = Append(doc_failures, input_file)
    /\ Exit(1)
    /\ UNCHANGED <<file_index, docVars, totalVars>>

\* split_single_file raises: split_ddl catches it in folder mode and goes on,
\* main catches it in single-file mode and exits 1
DocumentRaises ==
    /\ doc_failures' = Append(doc_failures, input_file)
    /\ IF folder_mode THEN
         /\ NextFile(total_files_processed, total_statements_processed)
         /\ UNCHANGED exit_code
       ELSE
         /\ Exit(1)
         /\ UNCHANGED <<file_index, docVars, totalVars>>

\* split_single_file: the text as read, its normalized content and the matches
\* of the patterns in it
Extraction(text) ==
    LET normalized == Normalize(text)
    IN  [text |-> text, content |-> normalized,
         matched |-> PatternStatements(normalized)]

\* the extractions of the texts of the catalogue, computed once
CatalogueExtractions == {Extraction(text) : text \in Catalogue}

ReadAndExtract(text) ==
    IF text \in Catalogue
      THEN CHOOSE e \in CatalogueExtractions : e.text = text
      ELSE Extraction(text)

\* split_single_file up to its loop: output directory, read, normalization,
\* extraction
OpenDocument ==
    /\ pc = "open"
    /\ IF MkdirFails(files, file_output_dir) THEN
         /\ DocumentRaises
         /\ UNCHANGED dirs
       ELSE LET read == ReadAndExtract(files[input_file])
            IN  /\ dirs' = dirs \cup PathAndParents(file_output_dir)
                /\ pc' = "loop"
                /\ content' = read.content
                /\ used_fallback' = (read.matched = <<>>)
                /\ all_statements' = IF read.matched = <<>>
                                       THEN SemicolonFallback(read.content)
                                       ELSE read.matched
                /\ UNCHANGED <<input_file, file_output_dir, stmt_index,
                               object_name, sanitized_name, successful_splits,
                               file_index, totalVars, exit_code, doc_failures>>
    /\ UNCHANGED <<files, argVars, splitterVars, envVars, faults, interrupted,
                   writes, stmt_errors>>

\* split_single_file: the input file cannot be read or decoded
OpenDocumentFails ==
    /\ pc = "open"
    /\ ~MkdirFails(files, file_output_dir)
    /\ faults < MaxFaults
    /\ faults' = faults + 1
    /\ dirs' = dirs \cup PathAndParents(file_output_dir)
    /\ DocumentRaises
    /\ UNCHANGED <<files, argVars, splitterVars, envVars, interrupted,
                   writes, stmt_errors>>

\* filepath of split_single_file, for the sanitized name of the statement
FilePath(sanitized) ==
    Append(file_output_dir,
           OutputFileName(PathStem(input_file), stmt_index, sanitized))

\* split_single_file: one round of the loop, the file is written
WriteStatement ==
    /\ pc = "loop"
    /\ stmt_index <= Len(all_statements)
    /\ stmt_index' = stmt_index + 1
    /\ LET statement == all_statements[stmt_index]
       IN  IF Strip(statement) = <<>> THEN
             UNCHANGED <<files, object_name, sanitized_name, successful_splits,
                         writes, stmt_errors>>
           ELSE
             /\ object_name' = _extract_object_name(statement, seed)
             /\ sanitized_name' = _sanitize_filename(object_name')
             /\ IF FilePath(sanitized_name') \in dirs THEN
                  /\ stmt_errors' =
                       Append(stmt_errors, <<input_file, stmt_index>>)
                  /\ UNCHANGED <<files, successful_splits, writes>>
                ELSE
                  /\ files' = WriteFile(files, FilePath(sanitized_name'),
                                        OutputFileContent(statement))
                  /\ successful_splits' = successful_splits + 1
                  /\ writes' = Append(writes,
                                      [path |-> FilePath(sanitized_name'),
                                       text |-> OutputFileContent(statement),
                                       source |-> input_file,
                                       ordinal |-> stmt_index])
                  /\ UNCHANGED stmt_errors
    /\ UNCHANGED <<dirs, pc, argVars, splitterVars, file_index, input_file,
                   file_output_dir, content, all_statements, used_fallback,
                   totalVars, exit_code, envVars, faults, interrupted,
                   doc_failures>>

\* a variant of the failing round in which the error ends the loop
WriteStatementAborts ==
    /\ pc = "loop"
    /\ stmt_index <= Len(all_statements)
    /\ Strip(all_statements[stmt_index]) # <<>>
    /\ faults < MaxFaults
    /\ faults' = faults + 1
    /\ stmt_index' = Len(all_statements) + 1
    /\ object_name' = _extract_object_name(all_statements[stmt_index], seed)
    /\ sanitized_name' = _sanitize_filename(object_name')
    /\ stmt_errors' = Append(stmt_errors, <<input_file, stmt_index>>)
    /\ UNCHANGED <<fsVars, pc, argVars, splitterVars, file_index, input_file,
                   file_output_dir, content, all_statements, used_fallback,
                   successful_splits, totalVars, exit_code, envVars,
                   interrupted, writes, doc_failures>>

\* split_single_file: one round of the loop, open(filepath, 'w') raises
WriteStatementFails ==
    /\ pc = "loop"
    /\ stmt_index <= Len(all_statements)
    /\ Strip(all_statements[stmt_index]) # <<>>
    /\ faults < MaxFaults
    /\ faults' = faults + 1
    /\ stmt_index' = stmt_index + 1
    /\ object_name' = _extract_object_name(all_statements[stmt_index], seed)
    /\ sanitized_name' = _sanitize_filename(object_name')
    /\ stmt_errors' = Append(stmt_errors, <<input_file, stmt_index>>)
    /\ UNCHANGED <<fsVars, pc, argVars, splitterVars, file_index, input_file,
                   file_output_dir, content, all_statements, used_fallback,
                   successful_splits, totalVars, exit_code, envVars,
                   interrupted, writes, doc_failures>>

\* a variant of the return in which the number of extracted statements is
\* counted in place of the number of files written
FinishDocumentCountsAll ==
    /\ pc = "loop"
    /\ stmt_index > Len(all_statements)
    /\ IF folder_mode THEN
         NextFile(total_files_processed + 1,
                  total_statements_processed + Len(all_statements))
       ELSE
         /\ ReturnToMain(1, Len(all_statements))
         /\ UNCHANGED <<file_index, docVars>>
    /\ UNCHANGED <<fsVars, argVars, splitterVars, exit_code, envVars, faults,
                   interrupted, logVars>>

\* split_single_file returns; split_ddl counts the document
FinishDocument ==
    /\ pc = "loop"
    /\ stmt_index > Len(all_statements)
    /\ IF folder_mode THEN
         NextFile(total_files_processed + 1,
                  total_statements_processed + successful_splits)
       ELSE
         /\ ReturnToMain(1, successful_splits)
         /\ UNCHANGED <<file_index, docVars>>
    /\ UNCHANGED <<fsVars, argVars, splitterVars, exit_code, envVars, faults,
                   interrupted, logVars>>

\* a variant of the end of main that reports success whatever was written
ReportSuccess ==
    /\ pc = "report"
    /\ Exit(0)
    /\ UNCHANGED <<fsVars, argVars, splitterVars, file_index, docVars,
                   totalVars, envVars, faults, interrupted, logVars>>

\* main: the summary and the exit status
Report ==
    /\ pc = "report"
    /\ IF total_statements_processed > 0 THEN Exit(0) ELSE Exit(1)
    /\ UNCHANGED <<fsVars, argVars, splitterVars, file_index, docVars,
                   totalVars, envVars, faults, interrupted, logVars>>

\* a variant of the interrupt of the splitting that ends the run as the
\* prompts do, with status 0
InterruptGoodbye ==
    /\ pc \in {"split_ddl", "open", "loop", "report"}
    /\ Exit(0)
    /\ interrupted' = TRUE
    /\ UNCHANGED <<fsVars, argVars, splitterVars, file_index, docVars,
                   totalVars, envVars, faults, logVars>>

\* KeyboardInterrupt while main is in its try block: "Process interrupted by
\* user", sys.exit(1)
Interrupt ==
    /\ pc \in {"split_ddl", "open", "loop", "report"}
    /\ Exit(1)
    /\ interrupted' = TRUE
    /\ UNCHANGED <<fsVars, argVars, splitterVars, file_index, docVars,
                   totalVars, envVars, faults, logVars>>

\* the user starts the command again, with the same arguments, after a run
\* that ended by itself
Rerun ==
    /\ pc = "exit"
    /\ ~interrupted
    /\ run < MaxRuns
    /\ run' = run + 1
    /\ \E s \in Seeds : seed' = s
    /\ prev_files' = files
    /\ pc' = "main"
    /\ exit_code' = 0
    /\ input_arg' = <<>>
    /\ output_arg' = <<>>
    /\ input_path' = <<>>
    /\ output_dir' = <<>>
    /\ folder_mode' = FALSE
    /\ ddl_files' = <<>>
    /\ file_index' = 0
    /\ input_file' = <<>>
    /\ file_output_dir' = <<>>
    /\ content' = <<>>
    /\ all_statements' = <<>>
    /\ stmt_index' = 1
    /\ used_fallback' = FALSE
    /\ object_name' = <<>>
    /\ sanitized_name' = <<>>
    /\ successful_splits' = 0
    /\ total_files_processed' = 0
    /\ total_statements_processed' = 0
    /\ writes' = <<>>
    /\ stmt_errors' = <<>>
    /\ doc_failures' = <<>>
    /\ UNCHANGED <<fsVars, argv, faults, interrupted, given>>

(***************************************************************************)
(* The inputs: command lines and file trees                                *)
(***************************************************************************)
\* the state of a process that has just been started
ProcessStart ==
    /\ pc = "main"
    /\ input_arg = <<>>
    /\ output_arg = <<>>
    /\ input_path = <<>>
    /\ output_dir = <<>>
    /\ folder_mode = FALSE
    /\ ddl_files = <<>>
    /\ file_index = 0
    /\ input_file = <<>>
    /\ file_output_dir = <<>>
    /\ content = <<>>
    /\ all_statements = <<>>
    /\ stmt_index = 1
    /\ used_fallback = FALSE
    /\ object_name = <<>>
    /\ sanitized_name = <<>>
    /\ successful_splits = 0
    /\ total_files_processed = 0
    /\ total_statements_processed = 0
    /\ exit_code = 0
    /\ interrupted = FALSE
    /\ writes = <<>>
    /\ stmt_errors = <<>>
    /\ doc_failures = <<>>

\* the ghost record of a run whose input was not put together from parts
NotGiven == [family |-> "none"]

\* the first start of the command args in the file tree (fs, ds); g records
\* how the input was put together
FirstRun(args, fs, ds, g) ==
    /\ argv = args
    /\ files = fs
    /\ dirs = ds
    /\ run = 1
    /\ faults = 0
    /\ seed \in Seeds
    /\ prev_files = fs
    /\ given = g
    /\ ProcessStart

\* a file that is not there
Absent == <<"absent">>

\* the files of a tree: the paths of choice whose text is not Absent
TreeFiles(choice) ==
    [p \in {q \in DOMAIN choice : choice[q] # Absent} |-> choice[p]]

\* the trees of the folder in/: each file is absent or holds one of a few texts;
\* next to b.DDL there may be a file out/b, in the way of the output
\* subdirectory of b.DDL when the output directory is out
FolderTrees ==
    LET trees ==
          { TreeFiles(a @@ b @@ n @@ s @@ o) :
              a \in [ { <<<<"i","n">>, <<"a",".","s","q","l">>>> } -> {Absent, DocTable} ],
              b \in [ { <<<<"i","n">>, <<"b",".","D","D","L">>>> } -> {Absent, DocTwo} ],
              n \in [ { <<<<"i","n">>, <<"n","o","t","e","s",".","t","x","t">>>> } -> {Absent, DocTable} ],
              s \in [ { <<<<"i","n">>, <<"s","u","b">>, <<"a",".","d","d","l">>>> } -> {Absent, DocTable, DocHash} ],
              o \in [ { <<<<"o","u","t">>, <<"b">>>> } -> {Absent, DocNone} ] }
    IN  {fs \in trees : <<<<"o","u","t">>, <<"b">>>> \in DOMAIN fs
                          => <<<<"i","n">>, <<"b",".","D","D","L">>>> \in DOMAIN fs}

FolderDirs == {<<>>, <<<<"i","n">>>>, <<<<"i","n">>, <<"s","u","b">>>>}

\* the directories of a tree of the folder
TreeDirs(fs) ==
    FolderDirs \cup UNION {PathAndParents(PathParent(p)) : p \in DOMAIN fs}

\* the command lines of a run on the single file and on the folder
SingleArgs == {<<DemoSql>>, <<DemoSql, <<"o","u","t">>>>}

FolderArgs == {<<<<"i","n">>>>, <<<<"i","n">>, <<"o","u","t">>>>}

\* what the user may type at the prompts of the interactive mode
InputLines == {<<>>, <<"n","o","p","e">>, <<" ","d","e","m","o",".","s","q","l"," ">>, <<"R","E","A","D","M","E">>, <<"i","n">>}

ConfirmLines == {<<"Y">>, <<"y","e","s">>, <<"n">>, <<>>}

OutputLines == {<<>>, <<"o","u","t">>}

\* the tree of the interactive runs and of the runs that stop before reading
SmallTree ==
    (<<DemoSql>> :> DocDemo) @@ (<<<<"R","E","A","D","M","E">>>> :> DocTable)
      @@ (<<<<"i","n">>, <<"a",".","s","q","l">>>> :> DocTable)
      @@ (<<<<"i","n",".","d">>, <<"a",".","s","q","l">>>> :> DocTable)

Init ==
    \/ \E doc \in SingleDocs, args \in SingleArgs :
         FirstRun(args, <<DemoSql>> :> doc, {<<>>}, NotGiven)
    \/ \E fs \in FolderTrees, args \in FolderArgs :
         FirstRun(args, fs, TreeDirs(fs), NotGiven)
    \/ \E args \in {<<>>, <<<<"n","o","p","e",".","s","q","l">>>>, <<<<"n","o","p","e",".","s","q","l">>, <<"o","u","t">>>>,
                     <<<<"i","n",".","d">>>>}
                     \cup {<<h>> : h \in HelpFlags} :
         FirstRun(args, SmallTree, {<<>>, <<<<"i","n">>>>, <<<<"i","n",".","d">>>>}, NotGiven)

Next ==
    \/ MainStart
    \/ \E line \in InputLines : PromptInput(line)
    \/ \E response \in ConfirmLines : PromptConfirm(response)
    \/ \E line \in OutputLines : PromptOutput(line)
    \/ PromptInterrupt
    \/ Validate
    \/ SplitDdl
    \/ OpenDocument
    \/ OpenDocumentFails
    \/ WriteStatement
    \/ WriteStatementFails
    \/ FinishDocument
    \/ Report
    \/ Interrupt
    \/ Rerun

Spec == Init /\ [][Next]_vars

(***************************************************************************)
(* One document, put together from fragments                               *)
(***************************************************************************)
\* how many fragments a document is put together from, at most
MaxFrags == 2

FragTable == <<"C","R","E","A","T","E"," ","T","A","B","L","E"," ","t","1"," ","(","x"," ","I","N","T",")",";">>

FragTemp == <<"C","R","E","A","T","E"," ","T","E","M","P"," ","T","A","B","L","E"," ","t","2"," ","(","y"," ","I","N","T",")",";">>

FragView == <<"C","R","E","A","T","E"," ","V","I","E","W"," ","v","1"," ","A","S"," ","S","E","L","E","C","T"," ","1",";">>

FragRole == <<"C","R","E","A","T","E"," ","R","O","L","E"," ","r",";">>

FragOpen == <<"C","R","E","A","T","E"," ","R","O","L","E"," ","q">>

FragSelect == <<"S","E","L","E","C","T"," ","1",";">>

FragLineComment == <<"-","-"," ","c",";","\n">>

FragBlockComment == <<"/","*"," ","x",";"," ","*","/">>

Fragments ==
    {FragTable, FragTemp, FragView, FragRole, FragOpen, FragSelect,
     FragLineComment, FragBlockComment}

\* the fragments that are statements of a kind the patterns name
SupportedFragments == {FragTable, FragTemp, FragView}

FragmentSeqs == UNION {[1..n -> Fragments] : n \in 0..MaxFrags}

RECURSIVE JoinFragments(_)
\* the text of the document: the fragments, one space between two of them
JoinFragments(frags) ==
    IF frags = <<>> THEN <<>>
    ELSE IF Len(frags) = 1 THEN frags[1]
    ELSE frags[1] \o <<" ">> \o JoinFragments(Tail(frags))

\* the command is run on demo.sql, which holds a document of fragments
InitDoc ==
    \E frags \in FragmentSeqs :
      FirstRun(<<DemoSql, <<"o","u","t">>>>, <<DemoSql>> :> JoinFragments(frags),
               {<<>>}, [family |-> "document", frags |-> frags])

\* the run on one document, with no I/O error and no interrupt
NextDoc ==
    \/ MainStart
    \/ Validate
    \/ SplitDdl
    \/ OpenDocument
    \/ WriteStatement
    \/ FinishDocument
    \/ Report

SpecDoc == InitDoc /\ [][NextDoc]_vars

(***************************************************************************)
(* One statement, put together from its parts                              *)
(***************************************************************************)
\* CREATE [OR REPLACE] TABLE [qualifier]name[ ](x INT);
TableCases ==
    [family : {"table"},
     lower : BOOLEAN,
     or_replace : BOOLEAN,
     qualifier : {<<>>, <<"s",".">>, <<"d","b",".","s",".">>, <<"\"","s","\"",".">>},
     quote : {<<>>, <<"\"">>, <<"'">>},
     name : {<<"f","o","o">>, <<"T","_","2">>},
     space : BOOLEAN]

\* CREATE [OR REPLACE] TABLE "My.Schema"."<name with a space>" (x INT);
SpacedCases ==
    [family : {"spaced"},
     lower : {FALSE},
     or_replace : BOOLEAN,
     qualifier : {<<"\"","M","y",".","S","c","h","e","m","a","\"",".">>},
     quote : {<<"\"">>},
     name : {<<"T","a","b","l","e"," ","1">>, <<"a"," ","b">>},
     space : {TRUE}]

\* CREATE [OR REPLACE] TEMPORARY TABLE [qualifier]name (x INT);
\* CREATE [OR REPLACE] MATERIALIZED VIEW [qualifier]name AS SELECT 1;
\* CREATE [OR REPLACE] SCHEMA [qualifier]name;
ShapeCases ==
    [family : {"temporary", "materialized", "schema"},
     lower : BOOLEAN,
     or_replace : BOOLEAN,
     qualifier : {<<>>, <<"d","b",".">>},
     quote : {<<>>, <<"\"">>},
     name : {<<"f","o","o">>},
     space : {TRUE}]

NameCases == TableCases \cup SpacedCases \cup ShapeCases

\* the words of a case between CREATE [OR REPLACE] and the name
KindWords(g) ==
    CASE g.family = "temporary" -> <<"T","E","M","P","O","R","A","R","Y"," ","T","A","B","L","E"," ">>
      [] g.family = "materialized" -> <<"M","A","T","E","R","I","A","L","I","Z","E","D"," ","V","I","E","W"," ">>
      [] g.family = "schema" -> <<"S","C","H","E","M","A"," ">>
      [] OTHER -> <<"T","A","B","L","E"," ">>

\* what follows the name in the statement of a case
AfterName(g) ==
    CASE g.family = "materialized" -> <<" ","A","S"," ","S","E","L","E","C","T"," ","1",";">>
      [] g.family = "schema" -> <<";">>
      [] OTHER -> (IF g.space THEN <<" ">> ELSE <<>>) \o <<"(","x"," ","I","N","T",")",";">>

\* the statement of a case
StatementOf(g) ==
    (IF g.lower THEN <<"c","r","e","a","t","e"," ">> ELSE <<"C","R","E","A","T","E"," ">>)
      \o (IF g.or_replace
            THEN (IF g.lower THEN <<"o","r"," ","r","e","p","l","a","c","e"," ">> ELSE <<"O","R"," ","R","E","P","L","A","C","E"," ">>)
            ELSE <<>>)
      \o (IF g.lower THEN StrLower(KindWords(g)) ELSE KindWords(g))
      \o g.qualifier \o g.quote \o g.name \o g.quote
      \o AfterName(g)

\* split_single_file, run on demo.sql that holds the one statement of case g,
\* has extracted the statement and enters its loop
InitName ==
    \E g \in NameCases :
      /\ given = g
      /\ argv = <<DemoSql, <<"o","u","t">>>>
      /\ files = (<<DemoSql>> :> StatementOf(g))
      /\ dirs = {<<>>, <<<<"o","u","t">>>>}
      /\ prev_files = files
      /\ run = 1
      /\ faults = 0
      /\ seed \in Seeds
      /\ pc = "loop"
      /\ input_arg = DemoSql
      /\ output_arg = <<"o","u","t">>
      /\ input_path = <<DemoSql>>
      /\ output_dir = <<<<"o","u","t">>>>
      /\ folder_mode = FALSE
      /\ ddl_files = <<>>
      /\ file_index = 0
      /\ input_file = <<DemoSql>>
      /\ file_output_dir = <<<<"o","u","t">>>>
      /\ content = StatementOf(g)
      /\ all_statements = <<StatementOf(g)>>
      /\ stmt_index = 1
      /\ used_fallback = FALSE
      /\ object_name = <<>>
      /\ sanitized_name = <<>>
      /\ successful_splits = 0
      /\ total_files_processed = 0
      /\ total_statements_processed = 0
      /\ exit_code = 0
      /\ interrupted = FALSE
      /\ writes = <<>>
      /\ stmt_errors = <<>>
      /\ doc_failures = <<>>

\* the loop names and writes the statement, and the run ends
NextName ==
    \/ WriteStatement
    \/ FinishDocument
    \/ Report

SpecName == InitName /\ [][NextName]_vars

(***************************************************************************)
(* _sanitize_filename, applied to descriptors of all kinds                 *)
(***************************************************************************)
\* how long the descriptors made of every combination of characters are, at
\* most
MaxDescriptor == 2

\* the characters of the short descriptors: the nine that are replaced and
\* four that are kept
DescriptorChars == {"<", ">", ":", "\"", "/", "\\", "|", "?", "*"}
                     \cup {"a", "_", " ", "."}

ShortDescriptors == UNION {[1..n -> DescriptorChars] : n \in 0..MaxDescriptor}

\* a descriptor of n characters with the character c at every seventh place
\* and from place 199 on
LongDescriptor(n, c) ==
    [i \in 1..n |-> IF i % 7 = 0 \/ i >= MaxNameLength - 1 THEN c ELSE "x"]

\* descriptors of lengths around the limit
LongDescriptors ==
    {LongDescriptor(n, c) : n \in (MaxNameLength - 1)..(MaxNameLength + 2),
                            c \in {"*", "b"}}

Descriptors == ShortDescriptors \cup LongDescriptors

\* split_single_file is about to sanitize the descriptor of a statement
InitSanitize ==
    \E d \in Descriptors :
      /\ given = [family |-> "descriptor", text |-> d]
      /\ object_name = d
      /\ sanitized_name = <<>>
      /\ pc = "sanitize"
      /\ argv = <<DemoSql, <<"o","u","t">>>>
      /\ files = (<<DemoSql>> :> <<>>)
      /\ dirs = {<<>>, <<<<"o","u","t">>>>}
      /\ prev_files = files
      /\ run = 1
      /\ faults = 0
      /\ seed \in Seeds
      /\ input_arg = DemoSql
      /\ output_arg = <<"o","u","t">>
      /\ input_path = <<DemoSql>>
      /\ output_dir = <<<<"o","u","t">>>>
      /\ folder_mode = FALSE
      /\ ddl_files = <<>>
      /\ file_index = 0
      /\ input_file = <<DemoSql>>
      /\ file_output_dir = <<<<"o","u","t">>>>
      /\ content = <<>>
      /\ all_statements = <<>>
      /\ stmt_index = 1
      /\ used_fallback = FALSE
      /\ successful_splits = 0
      /\ total_files_processed = 0
      /\ total_statements_processed = 0
      /\ exit_code = 0
      /\ interrupted = FALSE
      /\ writes = <<>>
      /\ stmt_errors = <<>>
      /\ doc_failures = <<>>

\* sanitized_name = self._sanitize_filename(object_name)
SanitizeName ==
    /\ pc = "sanitize"
    /\ sanitized_name' = _sanitize_filename(object_name)
    /\ pc' = "sanitized"
    /\ UNCHANGED <<fsVars, argVars, splitterVars, file_index, input_file,
                   file_output_dir, content, all_statements, stmt_index,
                   used_fallback, object_name, successful_splits, totalVars,
                   exit_code, envVars, faults, interrupted, logVars>>

\* _sanitize_filename applied to its own result
SanitizeAgain ==
    /\ pc = "sanitized"
    /\ object_name' = sanitized_name
    /\ sanitized_name' = _sanitize_filename(sanitized_name)
    /\ pc' = "sanitized_again"
    /\ UNCHANGED <<fsVars, argVars, splitterVars, file_index, input_file,
                   file_output_dir, content, all_statements, stmt_index,
                   used_fallback, successful_splits, totalVars,
                   exit_code, envVars, faults, interrupted, logVars>>

NextSanitize ==
    \/ SanitizeName
    \/ SanitizeAgain

SpecSanitize == InitSanitize /\ [][NextSanitize]_vars

(***************************************************************************)
(* The normalization of split_single_file, applied to texts of all kinds   *)
(***************************************************************************)
\* how many pieces a text is put together from, at most
MaxPieces == 4

\* the pieces of the texts: comment markers, their characters one by one,
\* white space and a letter
TextPieces ==
    {<<"-", "-">>, <<"/", "*">>, <<"*", "/">>, <<"-">>, <<"/">>, <<"*">>,
     <<" ">>, <<"\n">>, <<"a">>}

RECURSIVE JoinPieces(_)
\* the pieces one after the other
JoinPieces(pieces) ==
    IF pieces = <<>> THEN <<>> ELSE Head(pieces) \o JoinPieces(Tail(pieces))

Texts == {JoinPieces(ps) : ps \in UNION {[1..n -> TextPieces] : n \in 0..MaxPieces}}

\* split_single_file has read the text of demo.sql and is about to normalize it
InitNormalize ==
    \E text \in Texts :
      /\ given = [family |-> "text", text |-> text]
      /\ content = text
      /\ pc = "normalize"
      /\ argv = <<DemoSql, <<"o","u","t">>>>
      /\ files = (<<DemoSql>> :> text)
      /\ dirs = {<<>>, <<<<"o","u","t">>>>}
      /\ prev_files = files
      /\ run = 1
      /\ faults = 0
      /\ seed = 0
      /\ input_arg = DemoSql
      /\ output_arg = <<"o","u","t">>
      /\ input_path = <<DemoSql>>
      /\ output_dir = <<<<"o","u","t">>>>
      /\ folder_mode = FALSE
      /\ ddl_files = <<>>
      /\ file_index = 0
      /\ input_file = <<DemoSql>>
      /\ file_output_dir = <<<<"o","u","t">>>>
      /\ all_statements = <<>>
      /\ stmt_index = 1
      /\ used_fallback = FALSE
      /\ object_name = <<>>
      /\ sanitized_name = <<>>
      /\ successful_splits = 0
      /\ total_files_processed = 0
      /\ total_statements_processed = 0
      /\ exit_code = 0
      /\ interrupted = FALSE
      /\ writes = <<>>
      /\ stmt_errors = <<>>
      /\ doc_failures = <<>>

\* the three re.sub calls of split_single_file on the text read
NormalizeContent ==
    /\ pc = "normalize"
    /\ content' = Normalize(content)
    /\ pc' = "normalized"
    /\ UNCHANGED <<fsVars, argVars, splitterVars, file_index, input_file,
                   file_output_dir, all_statements, stmt_index, used_fallback,
                   object_name, sanitized_name, successful_splits, totalVars,
                   exit_code, envVars, faults, interrupted, logVars>>

\* the three re.sub calls applied to their own result
NormalizeAgain ==
    /\ pc = "normalized"
    /\ content' = Normalize(content)
    /\ pc' = "normalized_again"
    /\ UNCHANGED <<fsVars, argVars, splitterVars, file_index, input_file,
                   file_output_dir, all_statements, stmt_index, used_fallback,
                   object_name, sanitized_name, successful_splits, totalVars,
                   exit_code, envVars, faults, interrupted, logVars>>

NextNormalize ==
    \/ NormalizeContent
    \/ NormalizeAgain

SpecNormalize == InitNormalize /\ [][NextNormalize]_vars

(***************************************************************************)
(* Properties                                                              *)
(***************************************************************************)
\* the files of fs below the directory dir, at any depth
FilesBelow(fs, dir) == {p \in DOMAIN fs : IsPrefix(dir, p) /\ p # dir}

\* the files of fs that are direct children of the directory dir
FilesIn(fs, dir) == {p \in DOMAIN fs : p # <<>> /\ PathParent(p) = dir}

\* the texts of the statement writes of this run, in the order of the writes
WrittenTexts == [k \in DOMAIN writes |-> writes[k].text]

DemoSplit == <<<<"d","e","m","o","_","s","p","l","i","t">>>>

DemoTablePath == <<<<"d","e","m","o","_","s","p","l","i","t">>, <<"d","e","m","o","_","0","0","0","1","_","t","a","b","l","e","_","t","1",".","s","q","l">>>>

DemoViewPath == <<<<"d","e","m","o","_","s","p","l","i","t">>, <<"d","e","m","o","_","0","0","0","2","_","v","i","e","w","_","v","1",".","s","q","l">>>>

DemoTable == <<"C","R","E","A","T","E"," ","T","A","B","L","E"," ","t","1"," ","(","x"," ","I","N","T",")",";">>

DemoView == <<"C","R","E","A","T","E"," ","V","I","E","W"," ","v","1"," ","A","S"," ","S","E","L","E","C","T"," ","*"," ","F","R","O","M"," ","t","1",";">>

\* the first run of the command on demo.sql, which holds the text of the
\* example, with no output argument, has ended undisturbed
C1_DemoRunEnded ==
    /\ argv = <<DemoSql>>
    /\ prev_files = (<<DemoSql>> :> DocDemo)
    /\ run = 1
    /\ faults = 0
    /\ ~interrupted
    /\ pc = "exit"

\* C1: the run on the example leaves in demo_split/ exactly the files
\* demo_0001_table_t1.sql and demo_0002_view_v1.sql, each holding its
\* statement, reports 2 statements and exits 0
C1_DemoExample ==
    C1_DemoRunEnded =>
      /\ exit_code = 0
      /\ total_statements_processed = 2
      /\ FilesBelow(files, DemoSplit) = {DemoTablePath, DemoViewPath}
      /\ RStrip(files[DemoTablePath]) = DemoTable
      /\ RStrip(files[DemoViewPath]) = DemoView

\* the document of fragments has been split, and at least one of its fragments
\* is a statement of a supported kind
C2_DocumentSplit ==
    /\ given.family = "document"
    /\ pc = "report"
    /\ \E i \in DOMAIN given.frags : given.frags[i] \in SupportedFragments

\* C2: every occurrence of a supported statement in the document is written
\* to exactly one file, and the reported count is the number of occurrences
C2_EachStatementOnce ==
    C2_DocumentSplit =>
      /\ \A f \in SupportedFragments :
           Cardinality({k \in DOMAIN writes : writes[k].text = f \o <<"\n">>})
             = Cardinality({i \in DOMAIN given.frags : given.frags[i] = f})
      /\ total_statements_processed
           = Cardinality({i \in DOMAIN given.frags :
                            given.frags[i] \in SupportedFragments})

\* a run in folder mode has written statements of two documents
C3_TwoDocumentsWritten ==
    /\ folder_mode
    /\ \E i, j \in DOMAIN writes : writes[i].source # writes[j].source

\* C3: no two statement writes of one run target the same output path
C3_UniquePaths ==
    \A i, j \in DOMAIN writes : writes[i].path = writes[j].path => i = j

\* the second of two undisturbed runs of the same command line has ended
C4_SecondRunEnded ==
    /\ run = 2
    /\ argv # <<>>
    /\ faults = 0
    /\ ~interrupted
    /\ pc = "exit"

\* C4: the second run leaves the files, names and contents, as the first run
\* left them
C4_Idempotent == C4_SecondRunEnded => files = prev_files

\* the characters that may not appear in a file name
IllegalChars == {"<", ">", ":", "\"", "/", "\\", "|", "?", "*"}

\* the statement whose name is quoted, qualified and holds a space has been
\* named
C5_SpacedNamed == given.family = "spaced" /\ stmt_index = 2

\* C5: the derived name is the text between the last pair of quotes, space
\* included, and the sanitized name holds no illegal character
C5_QuotedSpacedName ==
    C5_SpacedNamed =>
      /\ object_name = <<"t","a","b","l","e","_">> \o given.name
      /\ \A i \in DOMAIN sanitized_name : sanitized_name[i] \notin IllegalChars

\* a CREATE TABLE statement of the family has been named
C6_TableNamed == given.family = "table" /\ stmt_index = 2

C7_StatementAndNewline(t) ==
    /\ Len(t) >= 2
    /\ t[Len(t)] = "\n"
    /\ LET body == SubSeq(t, 1, Len(t) - 1)
       IN  /\ Strip(body) = body
           /\ body[Len(body)] = ";"

\* C7: every file written holds a trimmed, non-empty statement that ends with
\* the terminator, followed by exactly one newline, and only the statements
\* written are counted
C7_NoEmptyStatement ==
    /\ \A k \in DOMAIN writes :
         /\ C7_StatementAndNewline(writes[k].text)
         /\ C7_StatementAndNewline(files[writes[k].path])
    /\ pc = "loop" => successful_splits = Len(writes)
    /\ pc \in {"report", "exit"} => total_statements_processed = Len(writes)

\* the document is a comment and an unterminated CREATE: the statement was
\* written trimmed, with the terminator
C7_TrimmedWritten ==
    /\ given.family = "document"
    /\ given.frags = <<FragLineComment, FragOpen>>
    /\ content = <<" ","C","R","E","A","T","E"," ","R","O","L","E"," ","q">>
    /\ WrittenTexts = <<<<"C","R","E","A","T","E"," ","R","O","L","E"," ","q",";","\n">>>>

\* the positions of the terminators in text
C8_Terminators(text) == {i \in 1..Len(text) : text[i] = ";"}

\* the k-th terminator of text, counted from 1
C8_Terminator(text, k) ==
    CHOOSE p \in C8_Terminators(text) :
      Cardinality({q \in C8_Terminators(text) : q < p}) = k - 1

\* the pieces of text that the terminators delimit, in order: the k-th piece
\* ends before the k-th terminator, the last one is what follows the last
\* terminator
C8_Pieces(text) ==
    LET n == Cardinality(C8_Terminators(text))
    IN  [k \in 1..(n + 1) |->
           Slice(text,
                 IF k = 1 THEN 1 ELSE C8_Terminator(text, k - 1) + 1,
                 IF k = n + 1 THEN Len(text) + 1 ELSE C8_Terminator(text, k))]

C8_StartsWithCreate(piece) ==
    StartsWith(StrUpper(Strip(piece)), <<"C","R","E","A","T","E">>)

\* the texts written for the pieces that start with CREATE
C8_TextsFor(pieces) ==
    LET keep == SelectSeq(pieces, C8_StartsWithCreate)
    IN  [i \in 1..Len(keep) |-> Strip(keep[i]) \o <<";","\n">>]

\* the document of fragments went through the fallback and has been split
C8_FallbackDone ==
    /\ given.family = "document"
    /\ used_fallback
    /\ pc = "report"

\* C8 as the code has it: under the fallback one file is written for each
\* piece that starts with CREATE, the piece after the last terminator
\* included, which is written with a terminator added, and nothing else is
\* written
C8_FallbackEveryPiece ==
    C8_FallbackDone => WrittenTexts = C8_TextsFor(C8_Pieces(content))

\* C8: under the fallback one file is written for each terminated piece that
\* starts with CREATE, and none for any other text, the text after the last
\* terminator included
C8_FallbackTerminatedOnly ==
    C8_FallbackDone =>
      LET pieces == C8_Pieces(content)
          terminated == SubSeq(pieces, 1, Len(pieces) - 1)
      IN  (\E k \in DOMAIN terminated : C8_StartsWithCreate(terminated[k]))
            => WrittenTexts = C8_TextsFor(terminated)

\* the document CREATE ROLE r; CREATE ROLE q was split into two files
C8_OpenPieceWritten ==
    /\ C8_FallbackDone
    /\ given.frags = <<FragRole, FragOpen>>
    /\ WrittenTexts = <<<<"C","R","E","A","T","E"," ","R","O","L","E"," ","r",";","\n">>, <<"C","R","E","A","T","E"," ","R","O","L","E"," ","q",";","\n">>>>

\* the number of statements in each text of the input folder
FolderStatementCount == (DocTable :> 1) @@ (DocTwo :> 2) @@ (DocHash :> 1)

\* the first run of the command on the folder has ended undisturbed
C9_FolderRunEnded ==
    /\ folder_mode
    /\ run = 1
    /\ faults = 0
    /\ doc_failures = <<>>
    /\ ~interrupted
    /\ pc = "exit"

\* the files of the input folder with one of the four extensions
C9_Sources ==
    {p \in FilesBelow(prev_files, input_path) :
       PathSuffix(p) \in {<<".","s","q","l">>, <<".","d","d","l">>, <<".","S","Q","L">>, <<".","D","D","L">>}}

\* C9: exactly the files with one of the four extensions are processed, each
\* into its own subdirectory <output>/<stem>/, which holds one file for each
\* statement of that document; nothing else is created
C9_FolderMode ==
    C9_FolderRunEnded =>
      /\ {writes[k].source : k \in DOMAIN writes} = C9_Sources
      /\ \A p \in C9_Sources :
           Cardinality(FilesIn(files, Append(output_dir, PathStem(p))))
             = FolderStatementCount[prev_files[p]]
      /\ \A f \in DOMAIN files \ DOMAIN prev_files :
           \E p \in C9_Sources : PathParent(f) = Append(output_dir, PathStem(p))

\* the folder of the example: a.sql with 1 statement, b.DDL with 2, notes.txt;
\* the run left 1 file in a/ and 2 files in b/
C9_ExampleFolder ==
    /\ C9_FolderRunEnded
    /\ DOMAIN prev_files
         = {<<<<"i","n">>, <<"a",".","s","q","l">>>>, <<<<"i","n">>, <<"b",".","D","D","L">>>>, <<<<"i","n">>, <<"n","o","t","e","s",".","t","x","t">>>>}
    /\ Cardinality(FilesIn(files, Append(output_dir, <<"a">>))) = 1
    /\ Cardinality(FilesIn(files, Append(output_dir, <<"b">>))) = 2
    /\ Cardinality(DOMAIN files) = 6

\* main was started with a help flag
HelpRequested == argv # <<>> /\ argv[1] \in {<<"-","-","h","e","l","p">>, <<"-","h">>, <<"h","e","l","p">>}

\* C10 as the code has it: a run that ends by itself, neither interrupted nor
\* out of input at a prompt, exits 0 if help was requested or a statement was
\* written, and 1 otherwise
C10_ExitStatusUninterrupted ==
    (pc = "exit" /\ ~interrupted) =>
      /\ exit_code \in {0, 1}
      /\ exit_code = 0 <=> (HelpRequested \/ Len(writes) > 0)

\* C10: every run exits 0 if and only if help was requested or a statement
\* was written
C10_ExitStatus ==
    pc = "exit" => (exit_code = 0 <=> (HelpRequested \/ Len(writes) > 0))

\* a run in folder mode in which one document failed and a statement of
\* another was written has exited 0
C10_PartialFailureExitsZero ==
    /\ pc = "exit"
    /\ ~interrupted
    /\ folder_mode
    /\ doc_failures # <<>>
    /\ writes # <<>>
    /\ exit_code = 0

\* where the statement files of the run would go, from the command line alone
C11_OutputTarget ==
    IF Len(argv) > 1 THEN ParsePath(argv[2])
    ELSE _get_default_output_dir(files, ParsePath(argv[1]))

\* the command was given an input path that does not exist
C11_InputMissing ==
    /\ argv # <<>>
    /\ ~HelpRequested
    /\ ~PathExists(files, dirs, argv[1])

\* C11: a run on an input path that does not exist never gets past the
\* validation in main: no splitter is constructed, no document is opened, no
\* file is written or changed, the output directory is not created, and the
\* process exits with status 1
C11_MissingInputRejected ==
    C11_InputMissing =>
      /\ pc \in {"main", "validate", "exit"}
      /\ pc = "exit" => exit_code = 1
      /\ input_path = <<>>
      /\ input_file = <<>>
      /\ writes = <<>>
      /\ files = prev_files
      /\ C11_OutputTarget \notin dirs

\* the run on nope.sql with the output argument out has exited with status 1
C11_MissingInputExited ==
    /\ C11_InputMissing
    /\ argv = <<<<"n","o","p","e",".","s","q","l">>, <<"o","u","t">>>>
    /\ pc = "exit"
    /\ exit_code = 1
    /\ <<<<"o","u","t">>>> \notin dirs

\* the statements that split_single_file extracts from the file f
ExtractedStatements(f) ==
    LET read == ReadAndExtract(files[f])
    IN  IF read.matched = <<>> THEN SemicolonFallback(read.content)
        ELSE read.matched

\* statement i of the document f was written in this run
C12_Written(f, i) ==
    \E k \in DOMAIN writes : writes[k].source = f /\ writes[k].ordinal = i

\* an error was reported for statement i of the document f in this run
C12_Reported(f, i) ==
    \E k \in DOMAIN stmt_errors : stmt_errors[k] = <<f, i>>

\* how far the loop over the statements of f has come
C12_Attempted(f) ==
    IF input_file = f THEN stmt_index - 1 ELSE Len(ExtractedStatements(f))

\* C12: a statement for which an error was reported is not written and not
\* counted, every later statement of its document is attempted all the same
\* (written, or reported itself), and the document does not fail for it
C12_StatementErrorContained ==
    /\ \A k \in DOMAIN stmt_errors :
         LET f == stmt_errors[k][1]
             i == stmt_errors[k][2]
         IN  /\ ~C12_Written(f, i)
             /\ \A j \in DOMAIN doc_failures : doc_failures[j] # f
             /\ \A j \in (i + 1)..C12_Attempted(f) :
                  C12_Written(f, j) \/ C12_Reported(f, j)
             /\ (pc = "report" /\ input_file = f)
                  => C12_Attempted(f) = Len(ExtractedStatements(f))
    /\ pc = "loop" =>
         successful_splits
           = Cardinality({k \in DOMAIN writes : writes[k].source = input_file})

\* writing statement 1 of the example failed; statements 2 and 3 were written
\* and the run counts 2
C12_LaterStatementsWritten ==
    /\ pc = "report"
    /\ prev_files = (<<DemoSql>> :> DocDemo)
    /\ stmt_errors = << <<(<<DemoSql>>), 1>> >>
    /\ C12_Written(<<DemoSql>>, 2)
    /\ C12_Written(<<DemoSql>>, 3)
    /\ total_statements_processed = 2

\* the document f failed in this run
C13_Failed(f) == \E j \in DOMAIN doc_failures : doc_failures[j] = f

\* a run in folder mode has gone through its scan
C13_ScanDone ==
    /\ folder_mode
    /\ ~interrupted
    /\ pc \in {"report", "exit"}

\* C13: in folder mode a document that fails is logged once, has nothing
\* written and adds nothing to the two counts, and every other file of the
\* scan is processed to its last statement
C13_DocumentErrorContained ==
    /\ \A k \in DOMAIN writes : ~C13_Failed(writes[k].source)
    /\ \A i, j \in DOMAIN doc_failures :
         doc_failures[i] = doc_failures[j] => i = j
    /\ C13_ScanDone =>
         /\ \A n \in DOMAIN ddl_files :
              \/ C13_Failed(ddl_files[n])
              \/ \A j \in 1..Len(ExtractedStatements(ddl_files[n])) :
                   \/ C12_Written(ddl_files[n], j)
                   \/ C12_Reported(ddl_files[n], j)
         /\ total_files_processed = Len(ddl_files) - Len(doc_failures)
         /\ total_statements_processed = Len(writes)

\* the output subdirectory of in/b.DDL could not be created, a file being in
\* the way; the documents before and after it were split
C13_BlockedDocumentSkipped ==
    /\ C13_ScanDone
    /\ faults = 0
    /\ ddl_files = << <<<<"i","n">>, <<"a",".","s","q","l">>>>, <<<<"i","n">>, <<"b",".","D","D","L">>>>,
                      <<<<"i","n">>, <<"s","u","b">>, <<"a",".","d","d","l">>>> >>
    /\ doc_failures = << <<<<"i","n">>, <<"b",".","D","D","L">>>> >>
    /\ C12_Written(<<<<"i","n">>, <<"a",".","s","q","l">>>>, 1)
    /\ C12_Written(<<<<"i","n">>, <<"s","u","b">>, <<"a",".","d","d","l">>>>, 1)
    /\ total_files_processed = 2

\* the text t without the newline at its end
C14_WithoutNewline(t) ==
    IF t # <<>> /\ t[Len(t)] = "\n" THEN SubSeq(t, 1, Len(t) - 1) ELSE t

\* the statement files of the document, in the order of their names, which is
\* the order of their ordinals
C14_StatementFiles == Sorted(FilesIn(files, file_output_dir))

\* the document of fragments has been split
C14_DocumentDone == given.family = "document" /\ pc = "report"

C15_InterruptedSplitting == interrupted /\ input_path # <<>>

\* C15 as the code has it: a run interrupted while the splitting is in
\* progress exits with status 1, and a run interrupted (or out of input) at one
\* of the prompts of the interactive mode exits with status 0, nothing written
C15_InterruptExitStatus ==
    (pc = "exit" /\ interrupted) =>
      /\ exit_code = IF C15_InterruptedSplitting THEN 1 ELSE 0
      /\ ~C15_InterruptedSplitting => (argv = <<>> /\ writes = <<>>)

\* C15: every run that the user interrupts exits with status 1
C15_InterruptExitsOne == (pc = "exit" /\ interrupted) => exit_code = 1

\* an interactive run was interrupted after its first statement was written
C15_InterruptedAfterWrite ==
    /\ pc = "exit"
    /\ argv = <<>>
    /\ C15_InterruptedSplitting
    /\ Len(writes) = 1
    /\ exit_code = 1

\* the DDLSplitter has been constructed
C16_Constructed == input_path # <<>>

\* <parent>/<stem>_split for a file input, <parent>/<name>_split for a
\* directory input
C16_DefaultOutput ==
    Append(PathParent(input_path),
           (IF input_path \in DOMAIN prev_files
              THEN PathStem(input_path) ELSE PathName(input_path))
             \o <<"_","s","p","l","i","t">>)

\* the document f failed although nothing was in the way of its output
\* directory and the environment raised no error
C16_FailedForNothing(f) ==
    /\ C13_Failed(f)
    /\ faults = 0
    /\ \A p \in PathAndParents(Append(output_dir, PathStem(f)))
                  \cup PathAndParents(output_dir) : p \notin DOMAIN prev_files

C16_DottedDirectoryDefault ==
    /\ argv = <<<<"i","n",".","d">>>>
    /\ pc = "report"
    /\ output_dir = <<<<"i","n",".","d","_","s","p","l","i","t">>>>
    /\ \E k \in DOMAIN writes :
         PathParent(writes[k].path) = <<<<"i","n",".","d","_","s","p","l","i","t">>, <<"a">>>>

\* the fragments that each pattern matches, for the patterns that match a
\* fragment at all, in the order of their declaration: TABLE with its optional
\* TEMP, then VIEW, then VIEW with its optional MATERIALIZED
C17_PatternFragments == <<{FragTable, FragTemp}, {FragView}, {FragView}>>

RECURSIVE C17_Concatenation(_, _)
\* for each set of classes in turn, the fragments of frags that are in it, in
\* the order they have in frags
C17_Concatenation(classes, frags) ==
    IF classes = <<>> THEN <<>>
    ELSE SelectSeq(frags, LAMBDA f : f \in Head(classes))
           \o C17_Concatenation(Tail(classes), frags)

\* the ordinal k as it appears in a file name
C17_FourDigits(k) == <<"0", "0", "0", DigitSeq[k + 1]>>

\* a document of fragments has been read and its statements extracted
C17_Extracted == given.family = "document" /\ pc \in {"loop", "report"}

\* C17: the extracted statements are the matches of the first pattern in
\* document order, then those of the second, and so on; the k-th of them is
\* written under the ordinal k, four digits wide, whatever its place in the
\* document
C17_OrdinalAssignment ==
    C17_Extracted =>
      LET expected == C17_Concatenation(C17_PatternFragments, given.frags)
      IN  /\ used_fallback <=> expected = <<>>
          /\ ~used_fallback => all_statements = expected
          /\ \A k \in DOMAIN writes :
               /\ writes[k].text = all_statements[k] \o <<"\n">>
               /\ StartsWith(PathName(writes[k].path),
                             <<"d","e","m","o","_">> \o C17_FourDigits(k) \o <<"_">>)

\* the document CREATE VIEW ...; CREATE TEMP TABLE ...; was split: the table,
\* second in the document, was written under ordinal 1, the view under 2 and 3
C17_LaterStatementFirst ==
    /\ C17_Extracted
    /\ pc = "report"
    /\ given.frags = <<FragView, FragTemp>>
    /\ WrittenTexts = <<FragTemp \o <<"\n">>, FragView \o <<"\n">>,
                        FragView \o <<"\n">>>>
    /\ PathName(writes[1].path) = <<"d","e","m","o","_","0","0","0","1","_","t","e","m","p","_","T","A","B","L","E",".","s","q","l">>
    /\ PathName(writes[2].path) = <<"d","e","m","o","_","0","0","0","2","_","v","i","e","w","_","v","1",".","s","q","l">>

\* the cases whose statement is of a shape that a pattern matches and whose
\* name holds no white space
C18_Shapes == {"table", "temporary", "materialized", "schema"}

\* the object kind of a case, in lower case
C18_Kind(g) ==
    CASE g.family = "materialized" -> <<"v","i","e","w">>
      [] g.family = "schema" -> <<"s","c","h","e","m","a">>
      [] OTHER -> <<"t","a","b","l","e">>

\* the statement of a case of one of the shapes has been named
C18_ShapeNamed == given.family \in C18_Shapes /\ stmt_index = 2

\* C18: for every statement of a supported shape the descriptor is the object
\* kind in lower case, whatever modifier word precedes it, and the last
\* segment of the name that follows the kind, without quotes, white space or
\* the terminator
C18_KindAndName ==
    C18_ShapeNamed =>
      /\ object_name = C18_Kind(given) \o <<"_">> \o given.name
      /\ \A i \in DOMAIN object_name : object_name[i] \notin WhiteSet \cup {";"}

\* the statement CREATE SCHEMA foo; was named schema_foo; and the statement
\* CREATE TEMPORARY TABLE foo (x INT); was named temporary_TABLE
C18_ModifierOrTerminatorNamed ==
    /\ stmt_index = 2
    /\ ~given.lower /\ ~given.or_replace
    /\ given.qualifier = <<>> /\ given.quote = <<>>
    /\ \/ given.family = "schema" /\ object_name = <<"s","c","h","e","m","a","_","f","o","o",";">>
       \/ given.family = "temporary" /\ object_name = <<"t","e","m","p","o","r","a","r","y","_","T","A","B","L","E">>

\* the position of the document f in the scan
C19_Position(f) == CHOOSE n \in DOMAIN ddl_files : ddl_files[n] = f

\* the documents of the sequence fs, all of the scan, are in the order of the
\* scan; strictly so when strict
C19_InScanOrder(fs, strict) ==
    /\ \A i \in DOMAIN fs : \E n \in DOMAIN ddl_files : ddl_files[n] = fs[i]
    /\ \A i, j \in DOMAIN fs :
         i < j => IF strict
                    THEN C19_Position(fs[i]) < C19_Position(fs[j])
                    ELSE C19_Position(fs[i]) <= C19_Position(fs[j])

\* C19: in folder mode the scan is sorted by path, the document at work is the
\* one at the position the loop has reached, every statement written or
\* reported is of that document or of one before it, and the writes, the
\* statement errors and the document failures of the run follow the order of
\* the scan, whether a document failed or not
C19_Sequential ==
    folder_mode =>
      /\ \A m, n \in DOMAIN ddl_files :
           m < n => PathLess(ddl_files[m], ddl_files[n])
      /\ pc \in {"open", "loop"} => input_file = ddl_files[file_index]
      /\ C19_InScanOrder([k \in DOMAIN writes |-> writes[k].source], FALSE)
      /\ C19_InScanOrder([k \in DOMAIN stmt_errors |-> stmt_errors[k][1]],
                         FALSE)
      /\ C19_InScanOrder(doc_failures, TRUE)
      /\ \A k \in DOMAIN writes : C19_Position(writes[k].source) <= file_index
      /\ \A k \in DOMAIN doc_failures :
           C19_Position(doc_failures[k]) <= file_index

\* in/a.sql could not be read; in/b.DDL and then in/sub/a.ddl were split after
\* it, in this order
C19_OrderKeptAfterFailure ==
    /\ folder_mode
    /\ pc = "report"
    /\ doc_failures = << <<<<"i","n">>, <<"a",".","s","q","l">>>> >>
    /\ [k \in DOMAIN writes |-> writes[k].source]
         = << <<<<"i","n">>, <<"b",".","D","D","L">>>>, <<<<"i","n">>, <<"b",".","D","D","L">>>>,
              <<<<"i","n">>, <<"s","u","b">>, <<"a",".","d","d","l">>>> >>

\* the smaller of two numbers
C20_Min(a, b) == IF a < b THEN a ELSE b

\* s is d with every illegal character replaced by an underscore and every
\* other character kept in its place, cut after the first 200 characters
C20_ReplacedAndCut(d, s) ==
    /\ Len(s) = C20_Min(Len(d), 200)
    /\ \A i \in DOMAIN s :
         s[i] = IF d[i] \in IllegalChars THEN "_" ELSE d[i]

\* C20: the sanitized descriptor holds none of the nine illegal characters, is
\* the descriptor with each of them replaced by an underscore and everything
\* else in place, is at most 200 characters long, the first 200 of the
\* descriptor, and is left unchanged when it is sanitized again
C20_Sanitization ==
    /\ pc = "sanitized" =>
         /\ C20_ReplacedAndCut(object_name, sanitized_name)
         /\ \A i \in DOMAIN sanitized_name :
              sanitized_name[i] \notin IllegalChars
         /\ Len(sanitized_name) <= 200
    /\ pc = "sanitized_again" =>
         /\ sanitized_name = object_name
         /\ C20_ReplacedAndCut(given.text, sanitized_name)

\* a descriptor of 202 characters with asterisks in it was cut to 200
\* characters with underscores in their places, and sanitized again
C20_LongDescriptorCut ==
    /\ pc = "sanitized_again"
    /\ given.text = LongDescriptor(202, "*")
    /\ Len(sanitized_name) = 200
    /\ sanitized_name[7] = "_"
    /\ sanitized_name[200] = "_"

\* the writes of this run for the document f
C21_WritesOf(f) == {k \in DOMAIN writes : writes[k].source = f}

\* the statement errors of this run for the document f
C21_ErrorsOf(f) == {k \in DOMAIN stmt_errors : stmt_errors[k][1] = f}

\* C21: while split_single_file is at work and when it returns, the number of
\* extracted statements n and the number of files written w satisfy
\* 0 <= w <= n, w is the number of files written for the document, and every
\* statement the loop has passed was either written or reported, none skipped,
\* so that w = n at the return when no error was reported; split_ddl returns
\* the number of documents that did not fail (1 for a single file) and the sum
\* of their w
C21_CountAccounting ==
    /\ pc = "loop" =>
         /\ 0 <= successful_splits
         /\ successful_splits <= Len(all_statements)
         /\ successful_splits = Cardinality(C21_WritesOf(input_file))
         /\ successful_splits
              = Cardinality({writes[k].path : k \in C21_WritesOf(input_file)})
         /\ successful_splits + Cardinality(C21_ErrorsOf(input_file))
              = stmt_index - 1
         /\ stmt_index <= Len(all_statements) + 1
    /\ pc = "report" =>
         /\ total_files_processed
              = IF folder_mode
                  THEN Cardinality({n \in DOMAIN ddl_files :
                                      ~C13_Failed(ddl_files[n])})
                  ELSE 1
         /\ total_statements_processed
              = Cardinality({k \in DOMAIN writes :
                               ~C13_Failed(writes[k].source)})
         /\ total_statements_processed = Len(writes)

\* the run on the folder, in which the write of one of the two statements of
\* in/b.DDL failed, returns 3 documents and 3 of the 4 statements
C21_FolderCounts ==
    /\ pc = "report"
    /\ folder_mode
    /\ Len(ddl_files) = 3
    /\ doc_failures = <<>>
    /\ Cardinality(C21_ErrorsOf(<<<<"i","n">>, <<"b",".","D","D","L">>>>)) = 1
    /\ total_files_processed = 3
    /\ total_statements_processed = 3

\* the text s holds the two characters a, b one after the other
C22_Holds(s, a, b) == \E i \in 1..(Len(s) - 1) : s[i] = a /\ s[i + 1] = b

\* the text s holds a block comment: an opening marker and, after it, a
\* closing one
C22_HoldsBlockComment(s) ==
    \E i \in 1..(Len(s) - 3) :
      /\ s[i] = "/" /\ s[i + 1] = "*"
      /\ \E j \in (i + 2)..(Len(s) - 1) : s[j] = "*" /\ s[j + 1] = "/"

\* the text s holds no line comment, no block comment, and no white space but
\* single spaces
C22_Clean(s) ==
    /\ ~C22_Holds(s, "-", "-")
    /\ ~C22_HoldsBlockComment(s)
    /\ \A i \in DOMAIN s : s[i] \in WhiteSet => s[i] = " "
    /\ ~C22_Holds(s, " ", " ")

\* the text has been normalized, and normalized again
C22_NormalizedTwice == given.family = "text" /\ pc = "normalized_again"

\* C22: the normalized text holds no line comment, no block comment and no
\* white space but single spaces, and normalizing it again leaves it unchanged
C22_NormalizationClean ==
    /\ (given.family = "text" /\ pc = "normalized") => C22_Clean(content)
    /\ C22_NormalizedTwice => content = Normalize(given.text)

\* the text -/**/- was normalized to -- and, normalized again, to nothing
C22_JoinedMarkers ==
    /\ C22_NormalizedTwice
    /\ given.text = <<"-","/","*","*","/","-">>
    /\ Normalize(given.text) = <<"-","-">>
    /\ content = <<>>

\* a fragment of the document is a statement that a pattern matches
C23_PatternMatches ==
    \E i \in DOMAIN given.frags : given.frags[i] \in SupportedFragments

\* how many matches the patterns have in the document: one for each TABLE
\* statement, two for each VIEW statement
C23_MatchCount ==
    Cardinality({i \in DOMAIN given.frags :
                   given.frags[i] \in {FragTable, FragTemp}})
      + 2 * Cardinality({i \in DOMAIN given.frags : given.frags[i] = FragView})

\* C23: the fallback is taken if and only if no pattern matches in the
\* document; when a pattern matches, the statements extracted, written and
\* counted are the matches of the patterns and nothing else, so a CREATE ROLE
\* fragment of the same document, terminated or not, gets no file and is not
\* counted
C23_AllOrNothing ==
    C17_Extracted =>
      /\ used_fallback <=> ~C23_PatternMatches
      /\ C23_PatternMatches =>
           /\ Len(all_statements) = C23_MatchCount
           /\ \A k \in DOMAIN all_statements :
                all_statements[k] \in SupportedFragments
           /\ \A k \in DOMAIN writes :
                \E f \in SupportedFragments : writes[k].text = f \o <<"\n">>
           /\ pc = "report" => total_statements_processed = C23_MatchCount

\* the document CREATE ROLE r; CREATE TABLE t1 (x INT); was split into one
\* file, that of the table
C23_RoleDropped ==
    /\ C17_Extracted
    /\ pc = "report"
    /\ given.frags = <<FragRole, FragTable>>
    /\ ~used_fallback
    /\ WrittenTexts = <<FragTable \o <<"\n">>>>
    /\ total_statements_processed = 1

\* the paths of the statement writes of this run
C24_WrittenPaths == {writes[k].path : k \in DOMAIN writes}

\* the directory split_single_file was given for the document f
C24_OutDir(f) ==
    IF folder_mode THEN Append(output_dir, PathStem(f)) ELSE output_dir

\* the input files of the run
C24_Inputs ==
    IF folder_mode THEN {ddl_files[n] : n \in DOMAIN ddl_files}
    ELSE {input_path}

\* name is <stem>_<ordinal>_<descriptor>.sql with no path separator in it
C24_StatementFileName(name, stem, ordinal) ==
    /\ StartsWith(name, stem \o <<"_">> \o C17_FourDigits(ordinal) \o <<"_">>)
    /\ EndsWith(name, <<".","s","q","l">>)
    /\ \A i \in DOMAIN name : name[i] \notin {"/", "\\"}

=============================================================================
